---- MODULE Spec2Model ----
(***************************************************************************)
(* Model of the battle simulation in src/app.py: the Game object driven by *)
(* Game.run.  One step of the model is one key event handled by the event  *)
(* loop of Game.run, or the rest of one loop iteration (Game.update and    *)
(* the game-over check).                                                   *)
(*                                                                         *)
(* Coordinates are fixed-point numbers, Scale units to the pixel, so that  *)
(* size/2 and wave * 0.2 are exact; quotients and square roots are         *)
(* truncated to that grid.  Particles are reduced to their lifetime: they  *)
(* are drawn and never read by the simulation.                             *)
(***************************************************************************)
EXTENDS Integers, Sequences, FiniteSets, TLC

\* ---------------------------------------------------------------- constants
SCREEN_WIDTH == 1000
SCREEN_HEIGHT == 700
PLAYER_SIZE == 30
ENEMY_SIZE == 25
PROJECTILE_SIZE == 5
PLAYER_SPEED == 5
ENEMY_SPEED == 3
PROJECTILE_SPEED == 8
MAX_PROJECTILES == 10
SPAWN_RATE == 60
MAX_ENEMIES == 15

\* fixed-point units per pixel: halves for size/2, fifths for wave * 0.2
Scale == 2 * 5

\* ------------------------------------------------------------------- bounds
\* calls of Game.update explored in a run from the initial state
MaxTicks == 48
\* calls of Game.update explored in a run from a state of GameStates
UnitTicks == 2
\* enemies whose random.randint(1, 60) comes up 1 in the same tick
MaxRolls == 1
\* the length of the enemy pool and of the projectile pool in a state of GameStates
UnitPool == 2

\* --------------------------------------------------- values of the random source
\* random.choice(side) with random.randint(0, SCREEN_WIDTH or SCREEN_HEIGHT)
SpawnChoices == {<<"bottom", 500>>, <<"left", 350>>}
\* random.randint(60, 120)
CooldownChoices == {60, 120}
\* random.randint(20, 50), one draw for all the particles
LifetimeChoices == {20}
\* random.uniform(-PLAYER_SPEED, PLAYER_SPEED), as a velocity in units
WanderChoices == {<<0, 0>>, <<-50, 25>>}

\* ------------------------------------------------------------------ helpers
Max(a, b) == IF a >= b THEN a ELSE b

\* a / b truncated toward zero
Quot(a, b) == IF a >= 0 THEN a \div b ELSE -((-a) \div b)

RECURSIVE SqrtSearch(_, _, _)
\* the largest r in lo..hi-1 with r * r <= n
SqrtSearch(lo, hi, n) ==
    IF hi - lo <= 1 THEN lo
    ELSE LET mid == (lo + hi) \div 2
         IN IF mid * mid <= n THEN SqrtSearch(mid, hi, n) ELSE SqrtSearch(lo, mid, n)

\* math.sqrt, truncated
Sqrt(n) == SqrtSearch(0, 32768, n)

\* the squared distance between two positions
Dist2(ax, ay, bx, by) == (ax - bx) * (ax - bx) + (ay - by) * (ay - by)

\* sqrt(dx*dx + dy*dy) < a.size/2 + b.size/2, on the positions of a and b
Overlap(a, b) ==
    LET reach == ((a.size + b.size) * Scale) \div 2
    IN Dist2(a.x, a.y, b.x, b.y) < reach * reach

RECURSIVE Repeat(_, _)
\* n copies of v
Repeat(v, n) == IF n <= 0 THEN <<>> ELSE <<v>> \o Repeat(v, n - 1)

RECURSIVE Sum(_)
\* the sum of a sequence of numbers
Sum(s) == IF s = <<>> THEN 0 ELSE Head(s) + Sum(Tail(s))

\* s without its i-th element
RemoveAt(s, i) == SubSeq(s, 1, i - 1) \o SubSeq(s, i + 1, Len(s))

\* ----------------------------------------------------------------- entities
\* self.player = None
None == [kind |-> "None"]

\* Player(position)
NewPlayer(px, py) ==
    [kind |-> "Player", x |-> px, y |-> py, size |-> PLAYER_SIZE, vx |-> 0, vy |-> 0,
     alive |-> TRUE, shoot_cooldown |-> 0, max_health |-> 100, health |-> 100,
     level |-> 1, shoot_power |-> 1]

\* Enemy(position)
NewEnemy(px, py) ==
    [x |-> px, y |-> py, size |-> ENEMY_SIZE, vx |-> 0, vy |-> 0, alive |-> TRUE,
     max_health |-> 30, health |-> 30, speed |-> ENEMY_SPEED * Scale,
     shoot_cooldown |-> 0, damage |-> 10, reward |-> 10]

\* Projectile(position, velocity, level)
NewProjectile(px, py, pvx, pvy, lvl) ==
    [x |-> px, y |-> py, size |-> PROJECTILE_SIZE + lvl, vx |-> pvx, vy |-> pvy,
     alive |-> TRUE, level |-> lvl, damage |-> Max(1, 5 + lvl * 2), lifetime |-> 300]

\* GameObject.update: add the velocity, then keep the position within bounds
Move(o) ==
    LET nx == o.x + o.vx
        ny == o.y + o.vy
        cx == IF nx < 0 THEN 0
              ELSE IF nx > (SCREEN_WIDTH - o.size) * Scale THEN (SCREEN_WIDTH - o.size) * Scale
              ELSE nx
        cy == IF ny < 0 THEN 0
              ELSE IF ny > (SCREEN_HEIGHT - o.size) * Scale THEN (SCREEN_HEIGHT - o.size) * Scale
              ELSE ny
    IN [o EXCEPT !.x = cx, !.y = cy]

\* the projectile kept alive in the tick in which its lifetime reaches 0
ProjectileOutlivesZero(p) ==
    LET q == Move(p)
    IN [q EXCEPT !.lifetime = p.lifetime - 1, !.alive = (p.lifetime - 1 >= 0) /\ p.alive]

\* Projectile.update
ProjectileUpdate(p) ==
    LET q == Move(p)
    IN [q EXCEPT !.lifetime = p.lifetime - 1, !.alive = (p.lifetime - 1 > 0) /\ p.alive]

\* the unit vector of (dx, dy), with the distance floored at 1, times speed
Steer(dx, dy, speed) ==
    LET distance == Max(Scale, Sqrt(dx * dx + dy * dy))
    IN <<Quot(dx * speed, distance), Quot(dy * speed, distance)>>

\* the projectile of Player.shoot and Enemy.shoot: from the centre of o toward (tx, ty)
Shot(o, tx, ty, speed, lvl) ==
    LET cx == o.x + (o.size * Scale) \div 2
        cy == o.y + (o.size * Scale) \div 2
        v == Steer(tx - cx, ty - cy, speed)
    IN NewProjectile(cx, cy, v[1], v[2], lvl)

\* Player.shoot: the player after the call and the projectiles returned
PlayerShoot(p, tx, ty) ==
    IF p.shoot_cooldown <= 0
    THEN [who |-> [p EXCEPT !.shoot_cooldown = 15 \div p.level],
          out |-> <<Shot(p, tx, ty, PROJECTILE_SPEED * Scale * p.shoot_power, p.level)>>]
    ELSE [who |-> p, out |-> <<>>]

\* Enemy.shoot, cd being the value of random.randint(60, 120)
EnemyShoot(e, tx, ty, cd) ==
    IF e.shoot_cooldown <= 0
    THEN [who |-> [e EXCEPT !.shoot_cooldown = cd],
          out |-> <<Shot(e, tx, ty, PROJECTILE_SPEED * Scale, 0)>>]
    ELSE [who |-> e, out |-> <<>>]

\* ------------------------------------------------------------------- stages
\* A stage maps the fields of the Game object, held in a record g, to their
\* values after the call.  g.log records what the tick did.

\* not self.player or self.player.health <= 0
NoLivePlayer(g) == g.player = None \/ g.player.health <= 0

RECURSIVE NearestFrom(_, _, _, _)
\* min(self.enemies, key = distance to the player): the first enemy at the least distance
NearestFrom(es, p, i, best) ==
    IF i > Len(es) THEN best
    ELSE IF Dist2(es[i].x, es[i].y, p.x, p.y) < Dist2(es[best].x, es[best].y, p.x, p.y)
         THEN NearestFrom(es, p, i + 1, i)
         ELSE NearestFrom(es, p, i + 1, best)

\* Game.update_player_ai; wander is the random velocity, roll says random.randint(1, 30) == 1
update_player_ai(g, wander, roll) ==
    IF NoLivePlayer(g) THEN g
    ELSE IF g.enemies # <<>>
    THEN LET p == g.player
             e == g.enemies[NearestFrom(g.enemies, p, 2, 1)]
             dx == e.x - p.x
             dy == e.y - p.y
             v == Steer(dx, dy, PLAYER_SPEED * Scale)
             steered == [p EXCEPT !.vx = v[1], !.vy = v[2]]
             near == dx * dx + dy * dy < (200 * Scale) * (200 * Scale)
             shot == PlayerShoot(steered, e.x + (ENEMY_SIZE * Scale) \div 2,
                                 e.y + (ENEMY_SIZE * Scale) \div 2)
         IN IF near /\ roll
            THEN [g EXCEPT !.player = shot.who, !.projectiles = @ \o shot.out,
                           !.log.player_shots = Len(shot.out)]
            ELSE [g EXCEPT !.player = steered]
    ELSE [g EXCEPT !.player.vx = wander[1], !.player.vy = wander[2]]

RECURSIVE EnemyAiFrom(_, _, _, _)
\* the loop of Game.update_enemy_ai from the i-th enemy on; rolls is the set of
\* enemies whose random.randint(1, 60) is 1
EnemyAiFrom(g, i, rolls, cd) ==
    IF i > Len(g.enemies) THEN g
    ELSE LET p == g.player
             e == g.enemies[i]
             tx == p.x + (PLAYER_SIZE * Scale) \div 2
             ty == p.y + (PLAYER_SIZE * Scale) \div 2
             v == Steer(tx - (e.x + (ENEMY_SIZE * Scale) \div 2),
                        ty - (e.y + (ENEMY_SIZE * Scale) \div 2), e.speed)
             steered == [e EXCEPT !.vx = v[1], !.vy = v[2]]
             shot == EnemyShoot(steered, tx, ty, cd)
         IN IF i \in rolls /\ e.shoot_cooldown <= 0
            THEN EnemyAiFrom([g EXCEPT !.enemies[i] = shot.who, !.projectiles = @ \o shot.out,
                                       !.log.enemy_shots = @ + Len(shot.out)],
                             i + 1, rolls, cd)
            ELSE EnemyAiFrom([g EXCEPT !.enemies[i] = steered], i + 1, rolls, cd)

\* Game.update_enemy_ai
update_enemy_ai(g, rolls, cd) ==
    IF NoLivePlayer(g) THEN g ELSE EnemyAiFrom(g, 1, rolls, cd)

\* the position chosen by Game.spawn_enemies for a side and a random coordinate
SpawnPosition(side, c) ==
    IF side = "top" THEN <<c * Scale, -ENEMY_SIZE * Scale>>
    ELSE IF side = "bottom" THEN <<c * Scale, SCREEN_HEIGHT * Scale>>
    ELSE IF side = "left" THEN <<-ENEMY_SIZE * Scale, c * Scale>>
    ELSE <<SCREEN_WIDTH * Scale, c * Scale>>

\* the enemy of Game.spawn_enemies, scaled by the wave number
SpawnedEnemy(pos, wave) ==
    LET e == NewEnemy(pos[1], pos[2])
    IN [e EXCEPT !.max_health = e.max_health + wave * 5,
                 !.health = e.max_health + wave * 5,
                 !.speed = e.speed + wave * (Scale \div 5),
                 !.reward = Max(10, 10 + wave * 2)]

\* the spawner setting its timer without the floor of 10
SpawnWithoutFloor(g, choice) ==
    IF Len(g.enemies) < MAX_ENEMIES /\ g.spawn_timer <= 0
    THEN [g EXCEPT !.enemies = Append(@, SpawnedEnemy(SpawnPosition(choice[1], choice[2]),
                                                       g.wave_number)),
                   !.spawn_timer = SPAWN_RATE - g.wave_number * 5,
                   !.log.spawned = 1]
    ELSE IF g.spawn_timer > 0
    THEN [g EXCEPT !.spawn_timer = @ - 1]
    ELSE g

\* the spawner admitting an enemy to a pool that holds MAX_ENEMIES
SpawnWhenFull(g, choice) ==
    IF Len(g.enemies) <= MAX_ENEMIES /\ g.spawn_timer <= 0
    THEN [g EXCEPT !.enemies = Append(@, SpawnedEnemy(SpawnPosition(choice[1], choice[2]),
                                                       g.wave_number)),
                   !.spawn_timer = Max(10, SPAWN_RATE - g.wave_number * 5),
                   !.log.spawned = 1]
    ELSE IF g.spawn_timer > 0
    THEN [g EXCEPT !.spawn_timer = @ - 1]
    ELSE g

\* Game.spawn_enemies; choice is the side and the coordinate drawn
spawn_enemies(g, choice) ==
    IF Len(g.enemies) < MAX_ENEMIES /\ g.spawn_timer <= 0
    THEN [g EXCEPT !.enemies = Append(@, SpawnedEnemy(SpawnPosition(choice[1], choice[2]),
                                                       g.wave_number)),
                   !.spawn_timer = Max(10, SPAWN_RATE - g.wave_number * 5),
                   !.log.spawned = 1]
    ELSE IF g.spawn_timer > 0
    THEN [g EXCEPT !.spawn_timer = @ - 1]
    ELSE g

RECURSIVE UpdatedProjectiles(_)
\* the pool after Game.update_projectiles: every projectile updated, the dead ones removed
UpdatedProjectiles(ps) ==
    IF ps = <<>> THEN <<>>
    ELSE LET q == ProjectileUpdate(Head(ps))
         IN (IF q.alive THEN <<q>> ELSE <<>>) \o UpdatedProjectiles(Tail(ps))

\* Game.update_projectiles
update_projectiles(g) ==
    LET kept == UpdatedProjectiles(g.projectiles)
    IN [g EXCEPT !.projectiles = kept,
                 !.log.expired = Len(g.projectiles) - Len(kept)]

RECURSIVE UpdatedParticles(_)
\* the pool after Game.update_particles
UpdatedParticles(ls) ==
    IF ls = <<>> THEN <<>>
    ELSE (IF Head(ls) - 1 <= 0 THEN <<>> ELSE <<Head(ls) - 1>>) \o UpdatedParticles(Tail(ls))

\* Game.update_particles
update_particles(g) == [g EXCEPT !.particles = UpdatedParticles(@)]

\* the level-up raising max_health by 10
LevelUpByTen(g) ==
    LET new_level == g.score \div 100 + 1
        p == g.player
        up == [g EXCEPT !.player.level = new_level,
                        !.player.max_health = p.max_health + 10,
                        !.player.health = p.max_health + 10]
    IN IF new_level > p.level
       THEN [up EXCEPT !.log.levelups = Append(@, [from |-> p.level, to |-> up.player.level,
                                                   max_before |-> p.max_health,
                                                   max_after |-> up.player.max_health,
                                                   health_after |-> up.player.health])]
       ELSE g

\* the level-up of Game.check_collisions, after the score has been raised
LevelUp(g) ==
    LET new_level == g.score \div 100 + 1
        p == g.player
        up == [g EXCEPT !.player.level = new_level,
                        !.player.max_health = p.max_health + 20,
                        !.player.health = p.max_health + 20]
    IN IF new_level > p.level
       THEN [up EXCEPT !.log.levelups = Append(@, [from |-> p.level, to |-> up.player.level,
                                                   max_before |-> p.max_health,
                                                   max_after |-> up.player.max_health,
                                                   health_after |-> up.player.health])]
       ELSE g

\* the contact adding the enemy's damage to the player's health
ContactHeals(g, k, life) ==
    LET e == g.enemies[k]
        hurt == [g EXCEPT !.player.health = @ + e.damage,
                          !.particles = @ \o Repeat(life, 10),
                          !.enemies = RemoveAt(@, k),
                          !.score = @ + e.reward,
                          !.high_score = IF g.score + e.reward > @ THEN g.score + e.reward ELSE @]
        logged == [hurt EXCEPT !.log.contacts = Append(@, [health_before |-> g.player.health,
                                                           health_after |-> hurt.player.health,
                                                           score_before |-> g.score,
                                                           score_after |-> hurt.score])]
    IN LevelUp(logged)

\* the contact awarding the enemy's damage instead of its reward
ContactAwardsDamage(g, k, life) ==
    LET e == g.enemies[k]
        hurt == [g EXCEPT !.player.health = @ - e.damage,
                          !.particles = @ \o Repeat(life, 10),
                          !.enemies = RemoveAt(@, k),
                          !.score = @ + e.damage,
                          !.high_score = IF g.score + e.damage > @ THEN g.score + e.damage ELSE @]
        logged == [hurt EXCEPT !.log.contacts = Append(@, [health_before |-> g.player.health,
                                                           health_after |-> hurt.player.health,
                                                           score_before |-> g.score,
                                                           score_after |-> hurt.score])]
    IN LevelUp(logged)

\* the body of the loop "Player vs enemies" for the enemy at index k of the pool
\* when it overlaps the player; life is the lifetime drawn for the particles
ContactHit(g, k, life) ==
    LET e == g.enemies[k]
        hurt == [g EXCEPT !.player.health = @ - e.damage,
                          !.particles = @ \o Repeat(life, 10),
                          !.enemies = RemoveAt(@, k),
                          !.score = @ + e.reward,
                          !.high_score = IF g.score + e.reward > @ THEN g.score + e.reward ELSE @]
        logged == [hurt EXCEPT !.log.contacts = Append(@, [health_before |-> g.player.health,
                                                           health_after |-> hurt.player.health,
                                                           score_before |-> g.score,
                                                           score_after |-> hurt.score])]
    IN LevelUp(logged)

RECURSIVE ContactFrom(_, _, _)
\* the loop "Player vs enemies" over the copy of the pool; k is the index in the pool
\* of the enemy the loop has come to (an enemy leaves the pool only in its own iteration)
ContactFrom(g, k, life) ==
    IF k > Len(g.enemies) THEN g
    ELSE IF Overlap(g.enemies[k], g.player)
         THEN ContactFrom(ContactHit(g, k, life), k, life)
         ELSE ContactFrom(g, k + 1, life)

RECURSIVE PlayerHitFrom(_, _, _)
\* the loop "Projectiles vs player" over the copy of the pool, j as k above
PlayerHitFrom(g, j, life) ==
    IF j > Len(g.projectiles) THEN g
    ELSE LET p == g.projectiles[j]
         IN IF p.level = 0 /\ Overlap(p, g.player)
            THEN PlayerHitFrom([g EXCEPT !.player.health = @ - p.damage,
                                         !.projectiles = RemoveAt(@, j),
                                         !.particles = @ \o Repeat(life, 5),
                                         !.log.player_hits = Append(@, p.damage)],
                               j, life)
            ELSE PlayerHitFrom(g, j + 1, life)

\* self.enemies.remove(enemy) and what follows it in "Projectiles vs enemies", for the
\* enemy e that was at index k; gone says that e is no longer in the pool, and then
\* list.remove raises ValueError
EnemyKilled(g, k, e, gone, life) ==
    IF gone
    THEN [g EXCEPT !.log.error = TRUE]
    ELSE [g EXCEPT !.enemies = RemoveAt(@, k),
                   !.score = @ + e.reward,
                   !.particles = @ \o Repeat(life, 15),
                   !.log.kills = Append(@, e.reward)]

RECURSIVE EnemyHitByAnyProjectile(_, _, _, _, _, _)
\* the inner loop of "Projectiles vs enemies" without the test of the projectile's level
EnemyHitByAnyProjectile(g, k, e, gone, j, life) ==
    IF j > Len(g.projectiles) \/ g.log.error THEN [game |-> g, gone |-> gone]
    ELSE LET p == g.projectiles[j]
         IN IF Overlap(p, e)
            THEN LET hurt == [e EXCEPT !.health = @ - p.damage]
                     hit == [g EXCEPT !.projectiles = RemoveAt(@, j),
                                      !.particles = @ \o Repeat(life, 5),
                                      !.enemies = IF gone THEN @ ELSE [@ EXCEPT ![k] = hurt],
                                      !.log.enemy_hits = Append(@, [damage |-> p.damage,
                                                                    gone |-> gone])]
                 IN IF hurt.health <= 0
                    THEN EnemyHitByAnyProjectile(EnemyKilled(hit, k, hurt, gone, life),
                                                 k, hurt, TRUE, j, life)
                    ELSE EnemyHitByAnyProjectile(hit, k, hurt, gone, j, life)
            ELSE EnemyHitByAnyProjectile(g, k, e, gone, j + 1, life)

RECURSIVE EnemyHitFrom(_, _, _, _, _, _)
\* the inner loop of "Projectiles vs enemies" for the enemy e taken from index k of
\* the pool, over the copy of the projectiles; j is the index in the pool of the
\* projectile the loop has come to.  The result is the game and whether e has left
\* the pool.
EnemyHitFrom(g, k, e, gone, j, life) ==
    IF j > Len(g.projectiles) \/ g.log.error THEN [game |-> g, gone |-> gone]
    ELSE LET p == g.projectiles[j]
         IN IF p.level > 0 /\ Overlap(p, e)
            THEN LET hurt == [e EXCEPT !.health = @ - p.damage]
                     hit == [g EXCEPT !.projectiles = RemoveAt(@, j),
                                      !.particles = @ \o Repeat(life, 5),
                                      !.enemies = IF gone THEN @ ELSE [@ EXCEPT ![k] = hurt],
                                      !.log.enemy_hits = Append(@, [damage |-> p.damage,
                                                                    gone |-> gone])]
                 IN IF hurt.health <= 0
                    THEN EnemyHitFrom(EnemyKilled(hit, k, hurt, gone, life), k, hurt, TRUE, j, life)
                    ELSE EnemyHitFrom(hit, k, hurt, gone, j, life)
            ELSE EnemyHitFrom(g, k, e, gone, j + 1, life)

RECURSIVE EnemiesHitFrom(_, _, _)
\* the outer loop of "Projectiles vs enemies" over the copy of the enemy pool
EnemiesHitFrom(g, k, life) ==
    IF k > Len(g.enemies) \/ g.log.error THEN g
    ELSE LET r == EnemyHitFrom(g, k, g.enemies[k], FALSE, 1, life)
         IN EnemiesHitFrom(r.game, IF r.gone THEN k ELSE k + 1, life)

\* Game.check_collisions
check_collisions(g, life) ==
    IF NoLivePlayer(g) THEN g
    ELSE EnemiesHitFrom(PlayerHitFrom(ContactFrom(g, 1, life), 1, life), 1, life)

\* "Check if wave is complete" in Game.update
WaveCheck(g) ==
    IF g.enemies = <<>> /\ g.spawn_timer <= 0
    THEN [g EXCEPT !.wave_number = @ + 1, !.spawn_timer = 60, !.log.wave_advanced = TRUE]
    ELSE g

\* what a tick has done so far, at its start
NoLog ==
    [player_shots |-> 0, enemy_shots |-> 0, spawned |-> 0, contacts |-> <<>>,
     levelups |-> <<>>, player_hits |-> <<>>, enemy_hits |-> <<>>, kills |-> <<>>,
     wave_advanced |-> FALSE, error |-> FALSE, expired |-> 0]

\* Game.update with the wave check moved before the spawner
UpdateChecksWaveFirst(g, wander, roll, rolls, cd, choice, life) ==
    LET ai == update_enemy_ai(update_player_ai(g, wander, roll), rolls, cd)
        hit == check_collisions(update_projectiles(spawn_enemies(WaveCheck(ai), choice)), life)
    IN IF hit.log.error THEN hit ELSE update_particles(hit)

\* the PLAYING branch of Game.update, in the order of its calls; an exception raised
\* by check_collisions leaves update at once
Update(g, wander, roll, rolls, cd, choice, life) ==
    LET ai == update_enemy_ai(update_player_ai(g, wander, roll), rolls, cd)
        hit == check_collisions(update_projectiles(spawn_enemies(ai, choice)), life)
    IN IF hit.log.error THEN hit ELSE WaveCheck(update_particles(hit))

\* -------------------------------------------------------------------- state
VARIABLES
    state,          \* self.state: "menu", "playing" or "game_over"
    player,         \* self.player
    enemies,        \* self.enemies
    projectiles,    \* self.projectiles
    particles,      \* self.particles, the lifetime of each
    spawn_timer,    \* self.spawn_timer
    wave_number,    \* self.wave_number
    score,          \* self.score
    high_score,     \* self.high_score
    loop,           \* Game.run: "running", "stopping" (running = False, iteration not
                    \* yet over), "stopped", or "error" (left by an exception)
    ticks,          \* calls of Game.update in the PLAYING state since Game.setup
    horizon,        \* the number of such calls explored in one run
    log             \* what the last call of Game.update did

vars == <<state, player, enemies, projectiles, particles, spawn_timer, wave_number,
          score, high_score, loop, ticks, horizon, log>>

\* the fields of the Game object as a record
Game ==
    [player |-> player, enemies |-> enemies, projectiles |-> projectiles,
     particles |-> particles, spawn_timer |-> spawn_timer, wave_number |-> wave_number,
     score |-> score, high_score |-> high_score, log |-> NoLog]

\* Game.__init__
Init ==
    /\ state = "menu"
    /\ player = None
    /\ enemies = <<>>
    /\ projectiles = <<>>
    /\ particles = <<>>
    /\ spawn_timer = 0
    /\ wave_number = 1
    /\ score = 0
    /\ high_score = 0
    /\ loop = "running"
    /\ ticks = 0
    /\ horizon = MaxTicks
    /\ log = NoLog

\* Game.setup without its last line
SetupKeepsScore ==
    /\ player' = NewPlayer((SCREEN_WIDTH * Scale) \div 2, (SCREEN_HEIGHT * Scale) \div 2)
    /\ enemies' = <<>>
    /\ projectiles' = <<>>
    /\ particles' = <<>>
    /\ spawn_timer' = 0
    /\ wave_number' = 1
    /\ score' = score

\* Game.setup
setup ==
    /\ player' = NewPlayer((SCREEN_WIDTH * Scale) \div 2, (SCREEN_HEIGHT * Scale) \div 2)
    /\ enemies' = <<>>
    /\ projectiles' = <<>>
    /\ particles' = <<>>
    /\ spawn_timer' = 0
    /\ wave_number' = 1
    /\ score' = 0

\* the event loop of Game.run takes events while the iteration is not over
Polling == loop \in {"running", "stopping"}

\* KEYDOWN of K_SPACE, the start command
KeySpace ==
    /\ Polling
    /\ IF state = "menu"
       THEN /\ state' = "playing"
            /\ setup
            /\ ticks' = 0
            /\ UNCHANGED <<high_score, loop, horizon, log>>
       ELSE UNCHANGED vars

\* KEYDOWN of K_r, the restart command
KeyR ==
    /\ Polling
    /\ state' = IF state = "playing" THEN "menu" ELSE state
    /\ UNCHANGED <<player, enemies, projectiles, particles, spawn_timer, wave_number,
                   score, high_score, loop, ticks, horizon, log>>

\* QUIT, or KEYDOWN of K_ESCAPE: running = False, the iteration goes on
Quit ==
    /\ Polling
    /\ loop' = "stopping"
    /\ UNCHANGED <<state, player, enemies, projectiles, particles, spawn_timer,
                   wave_number, score, high_score, ticks, horizon, log>>

\* the game-over check assigning GameState.GAME_OVER
DeathCheckEntersGameOver(g) ==
    IF g.player # None /\ g.player.health <= 0 THEN "game_over" ELSE "playing"

\* the state after "Check for game over condition"
AfterDeathCheck(g) ==
    IF g.player # None /\ g.player.health <= 0 THEN "playing" ELSE "playing"

\* The draws of the random source that a tick reads; a draw that the tick does not
\* read is left out, the tick being the same for each of its values.
\* random.uniform of the wander, read when there is a live player and no enemy
WanderDraws ==
    IF ~NoLivePlayer(Game) /\ enemies = <<>> THEN WanderChoices ELSE {<<0, 0>>}

\* random.randint(1, 30) == 1, read when there is a live player with an enemy
RollDraws ==
    IF ~NoLivePlayer(Game) /\ enemies # <<>> THEN BOOLEAN ELSE {FALSE}

\* the enemies whose random.randint(1, 60) is 1, among those whose cooldown lets them shoot
RollsDraws ==
    IF NoLivePlayer(Game) THEN {{}}
    ELSE {S \in SUBSET {i \in 1 .. Len(enemies) : enemies[i].shoot_cooldown <= 0} :
             Cardinality(S) <= MaxRolls}

\* random.randint(60, 120), read when an enemy shoots
CooldownDraws(rolls) == IF rolls = {} THEN {60} ELSE CooldownChoices

\* the side and coordinate, read when an enemy is spawned
SpawnDraws ==
    IF Len(enemies) < MAX_ENEMIES /\ spawn_timer <= 0 THEN SpawnChoices ELSE {<<"top", 0>>}

\* random.randint(20, 50) of the particles, read when g, the game after a tick, shows a hit
LifetimeDraws(g) ==
    IF g.log.contacts # <<>> \/ g.log.player_hits # <<>> \/ g.log.enemy_hits # <<>>
    THEN LifetimeChoices ELSE {20}

\* the rest of an iteration of Game.run once the events are handled: Game.update and
\* the game-over check when PLAYING, and the end of the loop after running = False
Tick ==
    /\ Polling
    /\ IF state = "playing"
       THEN /\ ticks < horizon
            /\ \E wander \in WanderDraws, roll \in RollDraws, rolls \in RollsDraws,
                  choice \in SpawnDraws :
               \E cd \in CooldownDraws(rolls) :
               \E life \in LifetimeDraws(Update(Game, wander, roll, rolls, cd, choice, 20)) :
               \E g \in {Update(Game, wander, roll, rolls, cd, choice, life)} :
                     /\ player' = g.player
                     /\ enemies' = g.enemies
                     /\ projectiles' = g.projectiles
                     /\ particles' = g.particles
                     /\ spawn_timer' = g.spawn_timer
                     /\ wave_number' = g.wave_number
                     /\ score' = g.score
                     /\ high_score' = g.high_score
                     /\ log' = g.log
                     /\ state' = IF g.log.error THEN state ELSE AfterDeathCheck(g)
                     /\ loop' = IF g.log.error THEN "error"
                                ELSE IF loop = "stopping" THEN "stopped" ELSE loop
            /\ ticks' = ticks + 1
            /\ UNCHANGED horizon
       ELSE /\ loop' = IF loop = "stopping" THEN "stopped" ELSE loop
            /\ UNCHANGED <<state, player, enemies, projectiles, particles, spawn_timer,
                           wave_number, score, high_score, ticks, horizon, log>>

Next == KeySpace \/ KeyR \/ Quit \/ Tick

\* the program from its construction
Spec == Init /\ [][Next]_vars

\* ------------------------------------------------------- states of the Game object
\* Game.update is also checked from states of the Game object as the method accepts
\* them in the middle of a run: a player who has scored and has been hurt or killed,
\* enemies that touch the player or stand off, projectiles of either side at rest on
\* their target.  Game.run from Game.__init__ reaches only the states in which the
\* player and every enemy stand where they were created, because Game.update calls
\* neither Player.update nor Enemy.update; UnitSpec checks Game.update and the loop
\* of Game.run on the other states as well.

\* the sequences over S of length at most n
RECURSIVE SeqsUpTo(_, _)
SeqsUpTo(S, n) ==
    IF n = 0 THEN {<<>>}
    ELSE LET shorter == SeqsUpTo(S, n - 1)
         IN shorter \cup {Append(q, v) : q \in shorter, v \in S}

\* the position Game.setup gives the player
Centre == <<(SCREEN_WIDTH * Scale) \div 2, (SCREEN_HEIGHT * Scale) \div 2>>

UnitHealths == {100, 5, 0}

UnitScores == {0, 95}

UnitWaves == {1, 51}

UnitTimers == {0, 1}

\* the player of a run, with h health left
UnitPlayer(h) == [NewPlayer(Centre[1], Centre[2]) EXCEPT !.health = h]

\* enemies of wave w that have fired: one touching the player, one 100 pixels off at
\* full health, one there with 5 health left
UnitEnemies(w) ==
    LET touching == [SpawnedEnemy(<<Centre[1] + 10 * Scale, Centre[2]>>, w)
                        EXCEPT !.shoot_cooldown = 60]
        target == [SpawnedEnemy(<<Centre[1] + 100 * Scale, Centre[2]>>, w)
                      EXCEPT !.shoot_cooldown = 60]
    IN {touching, target, [target EXCEPT !.health = 5]}

\* projectiles at rest: one of the player on the target, one of an enemy on the
\* player, one of an enemy in a corner with one tick to live
UnitProjectiles(lvl) ==
    {NewProjectile(Centre[1] + 100 * Scale, Centre[2], 0, 0, lvl),
     NewProjectile(Centre[1], Centre[2], 0, 0, 0),
     [NewProjectile(0, 0, 0, 0, 0) EXCEPT !.lifetime = 1]}

\* pools about the size Game.update is to cap: enemies standing 100 pixels off, one
\* short of MAX_ENEMIES and MAX_ENEMIES of them
UnitCrowds(w) ==
    LET standing == [SpawnedEnemy(<<Centre[1] + 100 * Scale, Centre[2]>>, w)
                        EXCEPT !.shoot_cooldown = 60]
    IN {Repeat(standing, MAX_ENEMIES - 1), Repeat(standing, MAX_ENEMIES)}

\* MAX_PROJECTILES projectiles of enemies at rest in a corner
UnitVolleys == {Repeat(NewProjectile(0, 0, 0, 0, 0), MAX_PROJECTILES)}

UnitParticles == {<<1, 20>>}

\* a state of the Game object in the middle of a run
UnitInit ==
    /\ state = "playing"
    /\ score \in UnitScores
    /\ high_score = score
    /\ \E h \in UnitHealths : player = UnitPlayer(h)
    /\ wave_number \in UnitWaves
    /\ wave_number > 1 => score > 0 /\ player.health = player.max_health
    /\ enemies \in SeqsUpTo(UnitEnemies(wave_number), UnitPool) \cup UnitCrowds(wave_number)
    /\ projectiles \in SeqsUpTo(UnitProjectiles(player.level), UnitPool) \cup UnitVolleys
    /\ particles \in UnitParticles
    /\ spawn_timer \in UnitTimers
    /\ loop = "running"
    /\ ticks = 0
    /\ horizon = UnitTicks
    /\ log = NoLog

\* Game.run from a state in the middle of a run
UnitSpec == UnitInit /\ [][Next]_vars

\* the ticks of a run that begins with an emptied pool
WaveTicks == 62

\* a state of the Game object in the middle of a run whose only enemy has just been
\* removed while the spawn timer had one tick left
WaveInit ==
    /\ state = "playing"
    /\ score = 12
    /\ high_score = score
    /\ player = UnitPlayer(100)
    /\ wave_number = 1
    /\ enemies = <<>>
    /\ projectiles = <<>>
    /\ particles = <<>>
    /\ spawn_timer = 1
    /\ loop = "running"
    /\ ticks = 0
    /\ horizon = WaveTicks
    /\ log = NoLog

\* Game.run from the emptied pool, for as long as the delay between waves takes
WaveSpec == WaveInit /\ [][Next]_vars

\* ------------------------------------------------------------------- claims
\* a step that is a call of Game.update in the PLAYING state
Ticked == state = "playing" /\ ticks' = ticks + 1

\* C1: whenever a start command is accepted in Menu, the resulting Playing state has
\* empty enemy, projectile and particle pools, score 0, wave 1, spawn timer 0 and a
\* fresh player at the field centre with health = maxHealth = 100 and level 1,
\* whatever the earlier run has left.
StartResetsRun ==
    [][(state = "menu" /\ state' = "playing") =>
          /\ enemies' = <<>> /\ projectiles' = <<>> /\ particles' = <<>>
          /\ score' = 0 /\ wave_number' = 1 /\ spawn_timer' = 0
          /\ player'.x = (SCREEN_WIDTH \div 2) * Scale
          /\ player'.y = (SCREEN_HEIGHT \div 2) * Scale
          /\ player'.health = 100 /\ player'.max_health = 100 /\ player'.level = 1]_vars

\* a run has just been started after a run in which the player scored by contact
StartedAfterScoringRun ==
    /\ state = "playing" /\ ticks = 0 /\ score = 0 /\ high_score > 0
    /\ log.contacts # <<>>
    /\ enemies = <<>> /\ player.health = 100

HealthBounded ==
    /\ [](player # None => player.health <= player.max_health)
    /\ [][(Ticked /\ log'.levelups = <<>>) => player'.health <= player.health]_vars

\* a tick without a level-up has hurt the player
HurtWithoutLevelUp ==
    /\ state = "playing" /\ ticks > 0
    /\ log.levelups = <<>> /\ log.player_hits # <<>> /\ log.contacts # <<>>
    /\ player.health < player.max_health

\* C9: every level-up raises maxHealth by exactly 20 and sets health to the new
\* maxHealth, and maxHealth changes in no other way during a run.
LevelUpRaisesMaxHealth ==
    /\ [](\A i \in DOMAIN log.levelups :
             /\ log.levelups[i].max_after = log.levelups[i].max_before + 20
             /\ log.levelups[i].health_after = log.levelups[i].max_after)
    /\ [][(player # None /\ ~(state = "menu" /\ state' = "playing")) =>
             /\ player'.max_health = player.max_health
                                     + (IF Ticked THEN 20 * Len(log'.levelups) ELSE 0)
             /\ player'.level # player.level <=> (Ticked /\ log'.levelups # <<>>)]_vars

\* a tick has levelled the player up, and a later collision of the tick has hurt it
LevelledUpThenHurt ==
    /\ state = "playing" /\ ticks > 0
    /\ Len(log.levelups) = 1 /\ player.max_health = 120 /\ player.level = 2
    /\ player.health < 120

\* the enemies of a pool that overlap the player p, in the order of the pool
Touching(pool, p) == SelectSeq(pool, LAMBDA e : Overlap(e, p))

\* the field f of each record of a sequence
RECURSIVE Field(_, _)
Field(s, f) == IF s = <<>> THEN <<>> ELSE <<Head(s)[f]>> \o Field(Tail(s), f)

\* C10: in a Playing tick with a live player every enemy whose proxy overlaps the
\* player's is removed from the pool, the player's health is reduced by exactly that
\* enemy's damage, before any refill by a level-up, and the score is increased by
\* exactly its reward.
ContactResolved ==
    [][(Ticked /\ player.health > 0) =>
          LET hit == Touching(enemies, player)
              seen == log'.contacts
          IN /\ Touching(enemies', player') = <<>>
             /\ Len(seen) = Len(hit)
             /\ \A i \in DOMAIN seen :
                   /\ seen[i].health_after = seen[i].health_before - hit[i].damage
                   /\ seen[i].score_after = seen[i].score_before + hit[i].reward
             /\ score' = score + Sum(Field(hit, "reward")) + Sum(log'.kills)
             /\ log'.levelups = <<>> =>
                   player'.health = player.health - Sum(Field(hit, "damage"))
                                    - Sum(log'.player_hits)]_vars

\* a tick has resolved the contact of two enemies with a live player
TwoContactsResolved ==
    /\ state = "playing" /\ ticks > 0
    /\ Len(log.contacts) = 2 /\ log.contacts[1].health_before > 0
    /\ score >= 24

\* C11: the number of enemies in the pool never exceeds MAX_ENEMIES (15) at the end
\* of any tick, after any sequence of start and restart commands and ticks.
EnemiesCapped == Len(enemies) <= MAX_ENEMIES

\* a tick that began with MAX_ENEMIES enemies and an expired spawn timer has admitted
\* no enemy
FullPoolRefused ==
    /\ state = "playing" /\ ticks > 0
    /\ Len(enemies) = MAX_ENEMIES /\ spawn_timer <= 0
    /\ log.spawned = 0 /\ log.contacts = <<>> /\ log.kills = <<>>

\* the delay Game.update sets when it increments the wave number
WaveDelay == 60

InField(o) ==
    /\ 0 <= o.x /\ o.x <= (SCREEN_WIDTH - o.size) * Scale
    /\ 0 <= o.y /\ o.y <= (SCREEN_HEIGHT - o.size) * Scale

\* C13: at the end of every tick the player, every enemy in the pool and every
\* projectile in the pool has 0 <= x <= SCREEN_WIDTH - size and
\* 0 <= y <= SCREEN_HEIGHT - size, enemies in the tick they are spawned included.
EntitiesInField ==
    /\ player # None => InField(player)
    /\ \A i \in DOMAIN enemies : InField(enemies[i])
    /\ \A i \in DOMAIN projectiles : InField(projectiles[i])

\* the number of entries of s that equal v
Count(s, v) == Cardinality({i \in DOMAIN s : s[i] = v})

\* C14: every projectile's lifetime decreases by exactly 1 in each Playing tick it is
\* in the pool, and a projectile whose lifetime reaches 0 is no longer in the pool at
\* the end of that tick: at the end of every tick every pooled projectile is alive
\* with lifetime > 0.  The pool after a tick holds, for each lifetime l, at most the
\* projectiles that had l + 1 before and the ones fired in the tick, which had 300,
\* and all of them when no projectile has hit anything.
ProjectilesAge ==
    [][Ticked =>
          LET before == Field(projectiles, "lifetime")
              after == Field(projectiles', "lifetime")
              fired == log'.player_shots + log'.enemy_shots
              aged(l) == Count(before, l + 1) + (IF l + 1 = 300 THEN fired ELSE 0)
              nohit == log'.player_hits = <<>> /\ log'.enemy_hits = <<>> /\ ~log'.error
          IN /\ \A j \in DOMAIN projectiles' :
                   /\ projectiles'[j].alive /\ projectiles'[j].lifetime > 0
                   /\ Count(after, after[j]) <= aged(after[j])
             /\ log'.expired = Count(before, 1)
             /\ nohit => /\ Len(after) = Len(before) + fired - Count(before, 1)
                         /\ \A i \in DOMAIN before :
                               before[i] > 1 => Count(after, before[i] - 1) = aged(before[i] - 1)
    ]_vars

\* a tick has removed a projectile at the end of its lifetime and aged another
ProjectileExpired ==
    /\ state = "playing" /\ ticks > 0
    /\ log.expired > 0 /\ projectiles # <<>>
    /\ log.player_hits = <<>> /\ log.enemy_hits = <<>>

Moved(o, dx, dy) ==
    LET q == Move([o EXCEPT !.vx = dx, !.vy = dy])
    IN <<q.x, q.y>>

\* C16: in every Playing tick with a live player, after the AI stage has set the
\* velocities, the motion stage runs for the player and for every enemy in the pool:
\* the position of each becomes its previous position plus its velocity, clamped to
\* the field, before the spawner runs.  Enemies keep their places in the pool in a
\* tick that removes none.
MotionStageRuns ==
    [][(Ticked /\ player # None /\ player.health > 0) =>
          /\ <<player'.x, player'.y>> = Moved(player, player'.vx, player'.vy)
          /\ (log'.contacts = <<>> /\ log'.kills = <<>> /\ ~log'.error) =>
                \A i \in DOMAIN enemies :
                   <<enemies'[i].x, enemies'[i].y>>
                      = Moved(enemies[i], enemies'[i].vx, enemies'[i].vy)]_vars

\* C17: during Playing a positive shoot cooldown of the player and of each enemy
\* decreases by 1 every tick and stops at 0, so that a shooter that has fired is able
\* to fire again once that many ticks have passed; while the cooldown is positive
\* shoot() creates no projectile.  Enemies keep their places in the pool in a tick
\* that removes none.
CooldownRunsDown ==
    [][(Ticked /\ player # None) =>
          /\ player.shoot_cooldown > 0 =>
                /\ log'.player_shots = 0
                /\ player'.shoot_cooldown = player.shoot_cooldown - 1
          /\ (\A i \in DOMAIN enemies : enemies[i].shoot_cooldown > 0) => log'.enemy_shots = 0
          /\ (log'.contacts = <<>> /\ log'.kills = <<>> /\ ~log'.error) =>
                \A i \in DOMAIN enemies :
                   enemies[i].shoot_cooldown > 0 =>
                      enemies'[i].shoot_cooldown = enemies[i].shoot_cooldown - 1]_vars

WaveAfterSpawn ==
    [][Ticked =>
          /\ ~(log'.spawned = 1 /\ wave_number' # wave_number)
          /\ wave_number' \in {wave_number, wave_number + 1}
          /\ log'.wave_advanced <=> wave_number' = wave_number + 1
          /\ wave_number' = wave_number + 1 => enemies' = <<>>
          /\ (ticks = 0 /\ enemies = <<>> /\ spawn_timer = 0 /\ wave_number = 1) =>
                /\ log'.spawned = 1 /\ enemies' # <<>>
                /\ wave_number' = 1]_vars

\* a tick that ended with an empty pool and the timer run out has incremented the
\* wave counter and admitted no enemy
WaveAdvancedOnEmptyPool ==
    /\ state = "playing" /\ ticks > 0
    /\ log.wave_advanced /\ log.spawned = 0
    /\ wave_number = 2 /\ enemies = <<>> /\ spawn_timer = WaveDelay

ProjectilesHitOtherSide ==
    [][(Ticked /\ player # None) =>
          LET ofEnemy == {i \in DOMAIN projectiles : projectiles[i].level = 0}
              ofPlayer == DOMAIN projectiles \ ofEnemy
              dying(S) == Cardinality({i \in S : projectiles[i].lifetime <= 1})
              leftOfEnemy == Cardinality({j \in DOMAIN projectiles' : projectiles'[j].level = 0})
              leftOfPlayer == Len(projectiles') - leftOfEnemy
              contacts == log'.contacts
              lost == Sum([i \in DOMAIN contacts |->
                              contacts[i].health_before - contacts[i].health_after])
              health(es) == Sum(Field(es, "health"))
          IN /\ player.level >= 1
             /\ \A j \in DOMAIN projectiles' :
                   projectiles'[j].level \in {0, player.level}
                                              \cup {projectiles[i].level : i \in DOMAIN projectiles}
             /\ Len(log'.player_hits)
                   = Cardinality(ofEnemy) - dying(ofEnemy) + log'.enemy_shots - leftOfEnemy
             /\ Len(log'.enemy_hits)
                   = Cardinality(ofPlayer) - dying(ofPlayer) + log'.player_shots - leftOfPlayer
             /\ \A i \in DOMAIN log'.player_hits :
                   log'.player_hits[i] = NewProjectile(0, 0, 0, 0, 0).damage
             /\ \A i \in DOMAIN log'.enemy_hits :
                   log'.enemy_hits[i].damage
                      \in {projectiles[n].damage : n \in ofPlayer}
                          \cup {NewProjectile(0, 0, 0, 0, player.level).damage}
             /\ log'.levelups = <<>> =>
                   player.health - player'.health = lost + Sum(log'.player_hits)
             /\ (contacts = <<>> /\ log'.kills = <<>> /\ ~log'.error) =>
                   health(enemies) - health(SubSeq(enemies', 1, Len(enemies)))
                      = Sum(Field(log'.enemy_hits, "damage"))]_vars

\* a tick in which a projectile of an enemy has hit the player and a projectile of the
\* player has hit an enemy, each once, and both have left the pool
BothSidesHit ==
    /\ state = "playing" /\ ticks > 0 /\ ~log.error
    /\ Len(log.player_hits) = 1 /\ Len(log.enemy_hits) = 1
    /\ log.player_shots = 0 /\ log.enemy_shots = 0 /\ log.expired = 0
    /\ projectiles = <<>> /\ enemies # <<>>

====
